---------------------------- MODULE Spec2Model ----------------------------
(***************************************************************************)
(* A model of the update-alternatives --query report parser of             *)
(* queryalternatives.go.                                                   *)
(*                                                                         *)
(* A byte string is a sequence of one-character strings.  The input is a   *)
(* byte stream that ends either in io.EOF or in another read error.  The   *)
(* parser is the state machine of Parser.Parse: one step reads a           *)
(* key-value pair (readKeyValue), the next one runs the switch on its key. *)
(***************************************************************************)
EXTENDS Integers, Sequences, FiniteSets, TLC

(***************************************************************************)
(* Bytes and the byte strings the code names.                              *)
(***************************************************************************)
LF == "\n"
CR == "\r"
SP == " "
COLON == ":"

KeyName == <<"N", "a", "m", "e">>
KeyLink == <<"L", "i", "n", "k">>
KeySlaves == <<"S", "l", "a", "v", "e", "s">>
KeyStatus == <<"S", "t", "a", "t", "u", "s">>
KeyBest == <<"B", "e", "s", "t">>
KeyValue == <<"V", "a", "l", "u", "e">>
KeyAlternative == <<"A", "l", "t", "e", "r", "n", "a", "t", "i", "v", "e">>
KeyPriority == <<"P", "r", "i", "o", "r", "i", "t", "y">>

(***************************************************************************)
(* Errors.  NoErr is Go's nil error; EOF is io.EOF; ReadError is any other *)
(* error of the underlying reader.                                         *)
(***************************************************************************)
NoErr == [kind |-> "nil"]
EOF == [kind |-> "EOF"]
ReadError == [kind |-> "read error"]

ParseError(message, key, line) ==
    [kind |-> "ParseError", Message |-> message, Key |-> key, Line |-> line]

(***************************************************************************)
(* The library functions the parser calls, on byte strings.                *)
(***************************************************************************)
\* bytes.TrimRight(s, cutset): s without its longest suffix of cutset bytes.
RECURSIVE TrimRight(_, _)
TrimRight(s, cutset) ==
    IF s = <<>> \/ s[Len(s)] \notin cutset THEN s
    ELSE TrimRight(SubSeq(s, 1, Len(s) - 1), cutset)

\* bytes.TrimLeft(s, cutset): s without its longest prefix of cutset bytes.
RECURSIVE TrimLeft(_, _)
TrimLeft(s, cutset) ==
    IF s = <<>> \/ s[1] \notin cutset THEN s
    ELSE TrimLeft(Tail(s), cutset)

\* bytes.IndexByte(s[i-1:], c): the first index from i on that holds c, or 0.
RECURSIVE IndexByte(_, _, _)
IndexByte(s, c, i) ==
    IF i > Len(s) THEN 0
    ELSE IF s[i] = c THEN i
    ELSE IndexByte(s, c, i + 1)

\* bytes.SplitN(s, sep, 2) and strings.SplitN(s, sep, 2): s cut at the first
\* sep, or s alone when it holds no sep.
SplitN(s, sep) ==
    LET i == IndexByte(s, sep, 1)
    IN  IF i = 0 THEN <<s>>
        ELSE <<SubSeq(s, 1, i - 1), SubSeq(s, i + 1, Len(s))>>

\* strings.Split(s, sep): every piece between two sep; one empty piece for
\* the empty string.
RECURSIVE Split(_, _)
Split(s, sep) ==
    LET parts == SplitN(s, sep)
    IN  IF Len(parts) = 1 THEN <<s>> ELSE <<parts[1]>> \o Split(parts[2], sep)

Digits == <<"0", "1", "2", "3", "4", "5", "6", "7", "8", "9">>

DigitVal(ch) == (CHOOSE d \in 1..10 : Digits[d] = ch) - 1

IsDigit(ch) == \E d \in 1..10 : Digits[d] = ch

RECURSIVE AtoiDigits(_, _)
AtoiDigits(s, n) ==
    IF s = <<>> THEN [n |-> n, ok |-> TRUE]
    ELSE IF ~IsDigit(Head(s)) THEN [n |-> 0, ok |-> FALSE]
    ELSE AtoiDigits(Tail(s), n * 10 + DigitVal(Head(s)))

\* Faulty variant: no sign is accepted.
AtoiUnsigned(s) ==
    LET r == AtoiDigits(s, 0)
    IN  IF s = <<>> \/ ~r.ok THEN [n |-> 0, ok |-> FALSE]
        ELSE [n |-> r.n, ok |-> TRUE]

\* strconv.Atoi(s): an optional sign and then one or more decimal digits.
\* (The values of the model stay far inside the range of int.)
Atoi(s) ==
    IF s = <<>> THEN [n |-> 0, ok |-> FALSE]
    ELSE LET signed == Head(s) \in {"-", "+"}
             body == IF signed THEN Tail(s) ELSE s
             r == AtoiDigits(body, 0)
         IN  IF body = <<>> \/ ~r.ok THEN [n |-> 0, ok |-> FALSE]
             ELSE [n |-> IF Head(s) = "-" THEN 0 - r.n ELSE r.n, ok |-> TRUE]

(***************************************************************************)
(* bufio.Reader over a stream: `in` is the bytes the stream delivers,      *)
(* `eerr` the error it gives once they are used up, r the number of bytes  *)
(* read so far.                                                            *)
(***************************************************************************)
\* ReadBytes('\n'): the bytes up to and including the next line feed, or
\* what is left together with the stream's error.
ReadBytes(in, eerr, r) ==
    LET i == IndexByte(in, LF, r + 1)
    IN  IF i # 0
        THEN [line |-> SubSeq(in, r + 1, i), err |-> NoErr, R |-> i]
        ELSE [line |-> SubSeq(in, r + 1, Len(in)), err |-> eerr, R |-> Len(in)]

\* Peek(1): the next byte without reading it, or the stream's error.
Peek(in, eerr, r) ==
    IF r < Len(in) THEN [next |-> in[r + 1], err |-> NoErr]
    ELSE [next |-> "", err |-> eerr]

(***************************************************************************)
(* Parser.readKeyValue                                                     *)
(***************************************************************************)
\* Faulty variant: only the line feed is trimmed.
trimLineLF(line) == TrimRight(line, {LF})

\* line = bytes.TrimRight(line, "\r\n")
trimLine(line) == TrimRight(line, {CR, LF})

\* line = bytes.TrimRight(bytes.TrimLeft(line, " "), "\r\n")
trimContinuation(line) == TrimRight(TrimLeft(line, {SP}), {CR, LF})

\* The first loop: read lines until one is not empty.
RECURSIVE seekKeyLine(_, _, _, _)
seekKeyLine(in, eerr, r, ln) ==
    LET rb == ReadBytes(in, eerr, r)
        line == trimLine(rb.line)
    IN  IF rb.err # NoErr /\ ~(rb.err = EOF /\ Len(line) # 0)
        THEN [line |-> <<>>, err |-> rb.err, R |-> rb.R, lineNo |-> ln]
        ELSE IF Len(line) # 0
        THEN [line |-> line, err |-> NoErr, R |-> rb.R, lineNo |-> ln + 1]
        ELSE seekKeyLine(in, eerr, rb.R, ln + 1)

\* value.WriteByte('\n') when the value is not empty, then value.Write(line).
appendLine(value, line) ==
    IF Len(value) > 0 THEN value \o <<LF>> \o line ELSE line

\* The second loop: while the next line begins with a space, read it and
\* append it to the value.
RECURSIVE readContinuation(_, _, _, _, _)
readContinuation(in, eerr, r, ln, value) ==
    LET pk == Peek(in, eerr, r)
    IN  IF pk.err # NoErr
        THEN [value |-> value, err |-> IF pk.err = EOF THEN NoErr ELSE pk.err,
              R |-> r, lineNo |-> ln]
        ELSE IF pk.next # SP
        THEN [value |-> value, err |-> NoErr, R |-> r, lineNo |-> ln]
        ELSE LET rb == ReadBytes(in, eerr, r)
                 line == trimContinuation(rb.line)
             IN  IF rb.err # NoErr /\ rb.err # EOF
                 THEN [value |-> value, err |-> rb.err, R |-> rb.R, lineNo |-> ln]
                 ELSE IF rb.err = EOF /\ Len(line) = 0
                 THEN [value |-> value, err |-> NoErr, R |-> rb.R, lineNo |-> ln]
                 ELSE readContinuation(in, eerr, rb.R, ln + 1,
                                       appendLine(value, line))

\* Faulty variant: the space after the colon is kept.
keyLineValueKeepSpace(rest) == TrimRight(rest, {CR, LF})

\* Faulty variant: one space is removed, the others are kept.
keyLineValueOneSpace(rest) ==
    TrimRight(IF rest # <<>> /\ rest[1] = SP THEN Tail(rest) ELSE rest,
              {CR, LF})

\* The value written on the key line itself.
keyLineValue(rest) == TrimRight(TrimLeft(rest, {SP}), {CR, LF})

\* Faulty variant: the line is numbered from 0.
malformedLineZeroBased(ln) == ParseError("malformed line", <<>>, ln - 1)

\* &ParseError{Message: "malformed line", Line: r.lineNo}
malformedLine(ln) == ParseError("malformed line", <<>>, ln)

\* The last index of s that holds c, or 0.
RECURSIVE LastIndexByte(_, _, _)
LastIndexByte(s, c, i) ==
    IF i = 0 THEN 0
    ELSE IF s[i] = c THEN i
    ELSE LastIndexByte(s, c, i - 1)

\* Faulty variant: the line is cut at its last colon.
splitKeyLineAtLastColon(line) ==
    LET i == LastIndexByte(line, COLON, Len(line))
    IN  IF i = 0 THEN <<line>>
        ELSE <<SubSeq(line, 1, i - 1), SubSeq(line, i + 1, Len(line))>>

\* parts := bytes.SplitN(line, []byte(":"), 2)
splitKeyLine(line) == SplitN(line, COLON)

\* readKeyValue: the key, the value and the error it returns, and the
\* reader's offset and line counter afterwards.  keyLine is the value of
\* lineNo when the key line had been read (0 when none was).
readKeyValue(in, eerr, r, ln) ==
    LET sk == seekKeyLine(in, eerr, r, ln)
        parts == splitKeyLine(sk.line)
    IN  IF sk.err # NoErr
        THEN [k |-> <<>>, v |-> <<>>, err |-> sk.err,
              R |-> sk.R, lineNo |-> sk.lineNo, keyLine |-> 0]
        ELSE IF Len(parts) # 2
        THEN [k |-> <<>>, v |-> <<>>,
              err |-> malformedLine(sk.lineNo),
              R |-> sk.R, lineNo |-> sk.lineNo, keyLine |-> sk.lineNo]
        ELSE LET co == readContinuation(in, eerr, sk.R, sk.lineNo,
                                        keyLineValue(parts[2]))
             IN  IF co.err # NoErr
                 THEN [k |-> <<>>, v |-> <<>>, err |-> co.err,
                       R |-> co.R, lineNo |-> co.lineNo, keyLine |-> sk.lineNo]
                 ELSE [k |-> parts[1], v |-> co.value, err |-> NoErr,
                       R |-> co.R, lineNo |-> co.lineNo, keyLine |-> sk.lineNo]

(***************************************************************************)
(* Parser.parseSlaves.  A map[string]string is the set of its <<key,      *)
(* value>> pairs, one pair per key.                                        *)
(***************************************************************************)
EmptyMap == {}

\* Faulty variant: the first path written for a name is kept.
MapPutFirst(m, k, v) ==
    IF \E e \in m : e[1] = k THEN m ELSE m \cup {<<k, v>>}

\* slaves[parts[0]] = parts[1]
MapPut(m, k, v) == {e \in m : e[1] # k} \cup {<<k, v>>}

NilMap == [nil |-> TRUE]

RECURSIVE parseSlavesLines(_, _, _)
parseSlavesLines(lines, slaves, ln) ==
    IF lines = <<>> THEN [slaves |-> slaves, err |-> NoErr]
    ELSE LET parts == SplitN(Head(lines), SP)
         IN  IF Len(parts) # 2
             THEN [slaves |-> NilMap,
                   err |-> ParseError("malformed slaves line", <<>>, ln)]
             ELSE parseSlavesLines(Tail(lines),
                                   MapPut(slaves, parts[1], parts[2]), ln)

parseSlaves(input, ln) == parseSlavesLines(Split(input, LF), EmptyMap, ln)

(***************************************************************************)
(* The records of the program.  A nil pointer is NilPtr; a Go string is a  *)
(* byte string; a slice is a sequence.                                     *)
(***************************************************************************)
NilPtr == [nil |-> TRUE]

newAlternative == [Path |-> <<>>, Priority |-> 0, Slaves |-> EmptyMap]

newAlternatives ==
    [Name |-> <<>>, Link |-> <<>>, Slaves |-> EmptyMap, Status |-> <<>>,
     Best |-> <<>>, Value |-> <<>>, Alternatives |-> <<>>]

HeaderKeys ==
    {KeyName, KeyLink, KeySlaves, KeyStatus, KeyBest, KeyValue, KeyAlternative}

AlternativeKeys == {KeyPriority, KeySlaves, KeyAlternative}

(***************************************************************************)
(* Parser.Parse as a step function on the state of one call:               *)
(*   R, lineNo            the Parser's reader offset and line counter      *)
(*   result, currentAlt   the locals of Parse                              *)
(*   k, v                 the pair readKeyValue returned last              *)
(*   pc                   "read" before readKeyValue, "switch" before the  *)
(*                        switch on the key, "done" after the return       *)
(*   ret                  the returned (record, error)                     *)
(*   pairs, raised        history: the pairs delivered so far, each with   *)
(*                        the line of its key, the line counter after it   *)
(*                        and the state it met; the errors raised so far   *)
(***************************************************************************)
ParseStart ==
    [R |-> 0, lineNo |-> 0, result |-> newAlternatives, currentAlt |-> NilPtr,
     k |-> <<>>, v |-> <<>>, pc |-> "read",
     ret |-> [rec |-> NilPtr, err |-> NoErr], pairs |-> <<>>, raised |-> 0]

Mode(s) == IF s.currentAlt = NilPtr THEN "Header" ELSE "InAlternative"

\* Faulty variant: the error comes back with the record built so far.
failWithRecord(s, e) ==
    [s EXCEPT !.pc = "done", !.ret = [rec |-> s.result, err |-> e],
              !.raised = @ + 1]

\* return nil, err
fail(s, e) ==
    [s EXCEPT !.pc = "done", !.ret = [rec |-> NilPtr, err |-> e],
              !.raised = @ + 1]

\* result.Alternatives = append(result.Alternatives, *currentAlt)
saveAlternative(s) ==
    [s EXCEPT !.result.Alternatives = Append(@, s.currentAlt)]

\* Faulty variant: the alternative in progress at the end of the stream is dropped.
finishNoSave(s) ==
    [s EXCEPT !.pc = "done", !.ret = [rec |-> s.result, err |-> NoErr]]

\* The end of the loop: save the last alternative, return result, nil.
finish(s) ==
    LET s1 == IF s.currentAlt # NilPtr THEN saveAlternative(s) ELSE s
    IN  [s1 EXCEPT !.pc = "done", !.ret = [rec |-> s1.result, err |-> NoErr]]

\* k, v, err := r.readKeyValue() and the test of err.
readStep(in, eerr, s) ==
    LET kv == readKeyValue(in, eerr, s.R, s.lineNo)
        s1 == [s EXCEPT !.R = kv.R, !.lineNo = kv.lineNo]
    IN  IF kv.err = EOF THEN finish(s1)
        ELSE IF kv.err # NoErr THEN fail(s1, kv.err)
        ELSE [s1 EXCEPT !.k = kv.k, !.v = kv.v, !.pc = "switch",
                        !.pairs = Append(@, [k |-> kv.k, v |-> kv.v,
                                             keyLine |-> kv.keyLine,
                                             endLine |-> kv.lineNo,
                                             mode |-> Mode(s)])]

\* The next iteration of the loop.
loop(s) == [s EXCEPT !.pc = "read"]

\* Faulty variant: an unknown key is skipped.
unexpectedKeySkipped(s) == loop(s)

\* default: return nil, &ParseError{"unexpected key: <k>", r.lineNo}
unexpectedKey(s) == fail(s, ParseError("unexpected key", s.k, s.lineNo))

\* case "Slaves" of the header: result.Slaves, err = r.parseSlaves(v)
headerSlaves(s) ==
    LET ps == parseSlaves(s.v, s.lineNo)
        s1 == [s EXCEPT !.result.Slaves = ps.slaves]
    IN  IF ps.err # NoErr THEN fail(s1, ps.err) ELSE loop(s1)

\* currentAlt = newAlternative(); currentAlt.Path = v
startAlternative(s) ==
    loop([s EXCEPT !.currentAlt = [newAlternative EXCEPT !.Path = s.v]])

headerSwitch(s) ==
    CASE s.k = KeyName -> loop([s EXCEPT !.result.Name = s.v])
      [] s.k = KeyLink -> loop([s EXCEPT !.result.Link = s.v])
      [] s.k = KeySlaves -> headerSlaves(s)
      [] s.k = KeyStatus -> loop([s EXCEPT !.result.Status = s.v])
      [] s.k = KeyBest -> loop([s EXCEPT !.result.Best = s.v])
      [] s.k = KeyValue -> loop([s EXCEPT !.result.Value = s.v])
      [] s.k = KeyAlternative -> startAlternative(s)
      [] OTHER -> unexpectedKey(s)

\* case "Priority"
alternativePriority(s) ==
    LET priority == Atoi(s.v)
    IN  IF ~priority.ok
        THEN fail(s, ParseError("invalid priority value", <<>>, s.lineNo))
        ELSE loop([s EXCEPT !.currentAlt.Priority = priority.n])

\* Faulty variant: the slave links of a block are stored in the header's map.
alternativeSlavesIntoHeader(s) ==
    LET ps == parseSlaves(s.v, s.lineNo)
    IN  IF ps.err # NoErr THEN fail(s, ps.err)
        ELSE loop([s EXCEPT !.result.Slaves = ps.slaves])

\* case "Slaves" of an alternative: currentAlt.Slaves, err = r.parseSlaves(v)
alternativeSlaves(s) ==
    LET ps == parseSlaves(s.v, s.lineNo)
        s1 == [s EXCEPT !.currentAlt.Slaves = ps.slaves]
    IN  IF ps.err # NoErr THEN fail(s1, ps.err) ELSE loop(s1)

alternativeSwitch(s) ==
    CASE s.k = KeyPriority -> alternativePriority(s)
      [] s.k = KeySlaves -> alternativeSlaves(s)
      [] s.k = KeyAlternative -> startAlternative(saveAlternative(s))
      [] OTHER -> unexpectedKey(s)

switchStep(s) ==
    IF s.currentAlt = NilPtr THEN headerSwitch(s) ELSE alternativeSwitch(s)

ParseStep(in, eerr, s) ==
    IF s.pc = "read" THEN readStep(in, eerr, s)
    ELSE IF s.pc = "switch" THEN switchStep(s)
    ELSE s

\* Parse run to its return.
RECURSIVE Parse(_, _, _)
Parse(in, eerr, s) ==
    IF s.pc = "done" THEN s ELSE Parse(in, eerr, ParseStep(in, eerr, s))

\* ParseString(input): NewParser(strings.NewReader(input)).Parse()
ParseString(in) == Parse(in, EOF, ParseStart).ret

(***************************************************************************)
(* The inputs of the model.                                                *)
(***************************************************************************)
MaxLines == 3
MaxAlts == 2
MaxSlaves == 1
MaxGap == 1
MaxSpaces == 2

RECURSIVE Flatten(_)
Flatten(ss) == IF ss = <<>> THEN <<>> ELSE Head(ss) \o Flatten(Tail(ss))

Eol(crlf) == IF crlf THEN <<CR, LF>> ELSE <<LF>>

\* The lines, each ended by the line ending; the last one is left
\* unterminated when finalNL is FALSE.
RenderLines(lines, crlf, finalNL) ==
    Flatten([i \in 1..Len(lines) |->
                IF i = Len(lines) /\ ~finalNL THEN lines[i]
                ELSE lines[i] \o Eol(crlf)])

\* The decimal text of an integer.
RECURSIVE ItoaNat(_)
ItoaNat(n) ==
    IF n < 10 THEN <<Digits[n + 1]>>
    ELSE ItoaNat(n \div 10) \o <<Digits[(n % 10) + 1]>>

Itoa(n) == IF n < 0 THEN <<"-">> \o ItoaNat(0 - n) ELSE ItoaNat(n)

\* A report of the grammar: the header fields, the header's slave links and
\* the alternative blocks.
TokName == <<"n", "m">>
TokLink == <<"/", "l", "n">>
TokStatus == <<"m", "a", "n", "u", "a", "l">>
TokBest == <<"/", "b", ":", "1">>
TokValue == <<"n", "o", "n", "e">>

Priorities == <<10, -5, 0, 207>>

SlaveEntries(b, n) ==
    [j \in 1..n |-> [name |-> <<"m", Digits[j + 1], ".", "g", "z">>,
                     path |-> <<"/", Digits[b + 1], "/", Digits[j + 1]>>]]

AltBlock(i, n) ==
    [Path |-> <<"/", "a", Digits[i + 1]>>,
     Priority |-> Priorities[((i - 1) % Len(Priorities)) + 1],
     slaves |-> SlaveEntries(i, n)]

SmallDocs ==
    UNION {{[Name |-> TokName, Link |-> TokLink,
             slaves |-> SlaveEntries(0, n0), Status |-> TokStatus,
             Best |-> TokBest, Value |-> TokValue,
             alts |-> [i \in 1..m |-> AltBlock(i, f[i])]] :
               n0 \in 0..MaxSlaves, f \in [1..m -> 0..MaxSlaves]} :
           m \in 0..MaxAlts}

\* The report of the README and of Test_ParseString_NoError.
JavaName ==
    <<"j", "a", "v", "a">>

JavaLink ==
    <<"/", "u", "s", "r", "/", "b", "i", "n", "/", "j", "a", "v", "a">>

JavaStatus ==
    <<"a", "u", "t", "o">>

JavaMan ==
    <<"j", "a", "v", "a", ".", "1", ".", "g", "z">>

JavaManJa ==
    <<"j", "a", "v", "a", ".", "j", "a", ".", "1", ".", "g", "z">>

JavaManPath ==
    <<"/", "u", "s", "r", "/", "s", "h", "a", "r", "e", "/", "m", "a",
      "n", "/", "m", "a", "n", "1", "/", "j", "a", "v", "a", ".", "1",
      ".", "g", "z">>

Java21 ==
    <<"/", "u", "s", "r", "/", "l", "i", "b", "/", "j", "v", "m", "/",
      "j", "a", "v", "a", "-", "2", "1", "-", "o", "p", "e", "n", "j",
      "d", "k", "-", "a", "m", "d", "6", "4", "/", "b", "i", "n", "/",
      "j", "a", "v", "a">>

Java21Man ==
    <<"/", "u", "s", "r", "/", "l", "i", "b", "/", "j", "v", "m", "/",
      "j", "a", "v", "a", "-", "2", "1", "-", "o", "p", "e", "n", "j",
      "d", "k", "-", "a", "m", "d", "6", "4", "/", "m", "a", "n", "/",
      "m", "a", "n", "1", "/", "j", "a", "v", "a", ".", "1", ".", "g",
      "z">>

Java21ManJa ==
    <<"/", "u", "s", "r", "/", "l", "i", "b", "/", "j", "v", "m", "/",
      "j", "a", "v", "a", "-", "2", "1", "-", "o", "p", "e", "n", "j",
      "d", "k", "-", "a", "m", "d", "6", "4", "/", "m", "a", "n", "/",
      "j", "a", "/", "m", "a", "n", "1", "/", "j", "a", "v", "a", ".",
      "1", ".", "g", "z">>

Java8 ==
    <<"/", "u", "s", "r", "/", "l", "i", "b", "/", "j", "v", "m", "/",
      "j", "a", "v", "a", "-", "8", "-", "o", "p", "e", "n", "j", "d",
      "k", "-", "a", "m", "d", "6", "4", "/", "j", "r", "e", "/", "b",
      "i", "n", "/", "j", "a", "v", "a">>

Java8Man ==
    <<"/", "u", "s", "r", "/", "l", "i", "b", "/", "j", "v", "m", "/",
      "j", "a", "v", "a", "-", "8", "-", "o", "p", "e", "n", "j", "d",
      "k", "-", "a", "m", "d", "6", "4", "/", "j", "r", "e", "/", "m",
      "a", "n", "/", "m", "a", "n", "1", "/", "j", "a", "v", "a", ".",
      "1", ".", "g", "z">>

JavaDoc ==
    [Name |-> JavaName, Link |-> JavaLink,
     slaves |-> <<[name |-> JavaMan, path |-> JavaManPath]>>,
     Status |-> JavaStatus, Best |-> Java21, Value |-> Java21,
     alts |-> <<[Path |-> Java21, Priority |-> 2111,
                 slaves |-> <<[name |-> JavaMan, path |-> Java21Man],
                              [name |-> JavaManJa, path |-> Java21ManJa]>>],
                [Path |-> Java8, Priority |-> 1081,
                 slaves |-> <<[name |-> JavaMan, path |-> Java8Man]>>]>>]

Docs == SmallDocs \cup {JavaDoc}

NoDoc == [nil |-> TRUE]

KV(key, val) == key \o <<COLON, SP>> \o val

SlaveLine(e) == <<SP>> \o e.name \o <<SP>> \o e.path

\* ("Slaves: " NL slaveline+)?   The tool writes "Slaves:" with no space.
SlavesBlock(entries, sp) ==
    IF entries = <<>> THEN <<>>
    ELSE <<KeySlaves \o <<COLON>> \o (IF sp THEN <<SP>> ELSE <<>>)>>
         \o [j \in 1..Len(entries) |-> SlaveLine(entries[j])]

AltLines(a, sp) ==
    <<KV(KeyAlternative, a.Path), KV(KeyPriority, Itoa(a.Priority))>>
    \o SlavesBlock(a.slaves, sp)

DocLines(d, gap, sp) ==
    <<KV(KeyName, d.Name), KV(KeyLink, d.Link)>>
    \o SlavesBlock(d.slaves, sp)
    \o <<KV(KeyStatus, d.Status), KV(KeyBest, d.Best), KV(KeyValue, d.Value)>>
    \o Flatten([i \in 1..Len(d.alts) |->
                   [j \in 1..gap |-> <<>>] \o AltLines(d.alts[i], sp)])

GrammarInputs ==
    {[input |-> RenderLines(DocLines(d, gap, sp), crlf, finalNL),
      endErr |-> EOF, doc |-> d] :
        d \in Docs, gap \in 0..MaxGap, sp \in BOOLEAN,
        crlf \in BOOLEAN, finalNL \in BOOLEAN}

\* Free text: up to MaxLines lines of the menu.
LineMenu ==
    { <<>>,
      <<SP>>,
      KV(KeyName, <<"a">>),
      KeySlaves \o <<COLON>>,
      <<SP, "s", SP, "p">>,
      <<SP, "s">>,
      KV(KeyAlternative, <<"/", "a">>),
      KV(KeyPriority, <<"7">>),
      <<"j", "u", "n", "k">>,
      KV(<<"F", "o", "o">>, <<"x">>) }

FreeLines == UNION {[1..n -> LineMenu] : n \in 0..MaxLines}

\* Every text on a stream that ends in EOF; the LF texts also on a stream
\* that ends in a read error.
FreeStyles ==
    {[crlf |-> c, finalNL |-> f, endErr |-> EOF] : c \in BOOLEAN, f \in BOOLEAN}
    \cup {[crlf |-> FALSE, finalNL |-> f, endErr |-> ReadError] : f \in BOOLEAN}

FreeInputs ==
    {[input |-> RenderLines(ls, st.crlf, st.finalNL), endErr |-> st.endErr,
      doc |-> NoDoc] :
        ls \in FreeLines, st \in FreeStyles}

\* Priority lines: "Priority:" and a text, in an alternative block, with or
\* without a continuation line.
PriorityTexts ==
    { <<>>, <<SP>>, <<SP, "1", "2">>, <<"1", "2">>, <<SP, SP, "0", "7">>,
      <<SP, "-", "3">>, <<SP, "+", "4">>, <<SP, "-">>, <<SP, "1", "x">>,
      <<SP, "a", "b", "c">>, <<SP, "1", SP, "2">>, <<SP, "1", SP>> }

PriorityInputs ==
    {[input |-> RenderLines(<<KV(KeyAlternative, <<"/", "a">>),
                              KeyPriority \o <<COLON>> \o txt>> \o more,
                            crlf, TRUE),
      endErr |-> EOF, doc |-> NoDoc] :
        txt \in PriorityTexts, more \in {<<>>, <<(<<SP, "2">>)>>},
        crlf \in BOOLEAN}

\* Key lines: a key, the colon, some spaces and a text, in the header or
\* in an alternative block, with or without a continuation line.
ValueTexts ==
    { <<>>, <<"a">>, <<"a", SP, "b">>, <<"a", SP>>, <<"a", ":", "b", ":", "c">>,
      <<":">>, <<"/", "b", ":", SP, "1">> }

Spaces(n) == [j \in 1..n |-> SP]

ValueInputs ==
    {[input |-> RenderLines(before \o <<key \o <<COLON>> \o Spaces(n) \o txt>>
                            \o more, crlf, finalNL),
      endErr |-> EOF, doc |-> NoDoc] :
        before \in {<<>>, <<KV(KeyAlternative, <<"/", "a">>)>>},
        key \in {KeyLink, KeyAlternative},
        n \in 0..MaxSpaces, txt \in ValueTexts,
        more \in {<<>>, <<(<<SP, "c", ":", "d">>)>>},
        crlf \in BOOLEAN, finalNL \in BOOLEAN}

\* Slave lists: "Slaves:" with or without an entry on its own line and up
\* to MaxLines entries after it, in the header or in an alternative block.
SlaveEntryMenu ==
    { <<SP, "s", SP, "p">>, <<SP, "s", SP, "q", SP, "r">>,
      <<SP, "t", SP, "p">>, <<SP, "s">> }

SlaveLists == UNION {[1..n -> SlaveEntryMenu] : n \in 0..MaxLines}

SlavesInputs ==
    {[input |-> RenderLines(before \o <<KeySlaves \o <<COLON>> \o first>>
                            \o es, crlf, TRUE),
      endErr |-> EOF, doc |-> NoDoc] :
        before \in {<<>>, <<KV(KeyAlternative, <<"/", "a">>)>>},
        first \in {<<>>, <<SP, "u", SP, "v">>},
        es \in SlaveLists, crlf \in BOOLEAN}

(***************************************************************************)
(* The state machine.  Every variable is indexed by the Parser instance.   *)
(***************************************************************************)
Procs == {1, 2}

VARIABLES
    input,       \* the bytes the instance's stream delivers
    endErr,      \* the error the stream gives after them: EOF or ReadError
    doc,         \* the report the input was written from, or NoDoc
    R,           \* Parser.R: the number of bytes read
    lineNo,      \* Parser.lineNo
    result,      \* Parse's result
    currentAlt,  \* Parse's currentAlt
    k,           \* the key readKeyValue returned last
    v,           \* the value readKeyValue returned last
    pc,          \* "idle" (no Parse call), "read", "switch", "done"
    ret,         \* what Parse returned: [rec, err]
    pairs,       \* history: the pairs readKeyValue delivered
    raised,      \* history: the number of errors raised
    cmd,         \* Query's subprocess: its state, exit status and stderr text
    stdout,      \* the subprocess's stdout pipe: bytes written and bytes taken
    query        \* Query's call: its position and what it returned

vars == <<input, endErr, doc, R, lineNo, result, currentAlt, k, v, pc, ret,
          pairs, raised, cmd, stdout, query>>

(***************************************************************************)
(* Query's subprocess and its stdout pipe.  input[p] is all the subprocess *)
(* writes on its standard output.  A stream that is no pipe (cmd.state is  *)
(* "none") holds all of its bytes from the start.                          *)
(***************************************************************************)
\* The bytes the pipe holds before a writer blocks.
PipeCap == 2

NoCmd == [state |-> "none", status |-> 0, stderr |-> <<>>]

EmptyPipe == [written |-> 0, drained |-> 0]

NoQuery == [pc |-> "none", ret |-> [rec |-> NilPtr, err |-> NoErr]]

\* The blocking reads of a readKeyValue that returns kv all return.  The last
\* offset it looks at is the end of the last line it reads and, unless the
\* key line is malformed, the byte Peek asks for after it; it meets the end
\* of the stream when ReadBytes finds no line feed or Peek no byte.  The
\* bytes it looks at must have been taken from the pipe, and the pipe's
\* writer must have closed it when the reads go to the end of the stream.
readReturns(kv, in, pipe, c) ==
    LET sees == IF kv.err \notin {NoErr, EOF} THEN kv.R ELSE kv.R + 1
        needsEOF == \/ sees > Len(in)
                    \/ in[Len(in)] # LF /\ kv.R = Len(in)
    IN  IF needsEOF THEN pipe.drained = Len(in) /\ c.state = "exited"
        ELSE pipe.drained >= sees

Delivered(p) ==
    \/ cmd[p].state = "none"
    \/ readReturns(readKeyValue(input[p], EOF, R[p], lineNo[p]), input[p],
                   stdout[p], cmd[p])

\* Faulty variant: the line counter is a package-level variable, the one
\* instance 1 writes, that every instance reads.
StSharedLineNo(p) ==
    [R |-> R[p], lineNo |-> lineNo[1], result |-> result[p],
     currentAlt |-> currentAlt[p], k |-> k[p], v |-> v[p], pc |-> pc[p],
     ret |-> ret[p], pairs |-> pairs[p], raised |-> raised[p]]

\* The state of instance p's Parse call.
St(p) ==
    [R |-> R[p], lineNo |-> lineNo[p], result |-> result[p],
     currentAlt |-> currentAlt[p], k |-> k[p], v |-> v[p], pc |-> pc[p],
     ret |-> ret[p], pairs |-> pairs[p], raised |-> raised[p]]

\* Faulty variant: the record under construction is a package-level variable
\* that every instance writes.
BecomeSharedResult(p, s) ==
    /\ R' = [R EXCEPT ![p] = s.R]
    /\ lineNo' = [lineNo EXCEPT ![p] = s.lineNo]
    /\ result' = [q \in Procs |-> s.result]
    /\ currentAlt' = [currentAlt EXCEPT ![p] = s.currentAlt]
    /\ k' = [k EXCEPT ![p] = s.k]
    /\ v' = [v EXCEPT ![p] = s.v]
    /\ pc' = [pc EXCEPT ![p] = s.pc]
    /\ ret' = [ret EXCEPT ![p] = s.ret]
    /\ pairs' = [pairs EXCEPT ![p] = s.pairs]
    /\ raised' = [raised EXCEPT ![p] = s.raised]
    /\ UNCHANGED <<input, endErr, doc, cmd, stdout, query>>

Become(p, s) ==
    /\ R' = [R EXCEPT ![p] = s.R]
    /\ lineNo' = [lineNo EXCEPT ![p] = s.lineNo]
    /\ result' = [result EXCEPT ![p] = s.result]
    /\ currentAlt' = [currentAlt EXCEPT ![p] = s.currentAlt]
    /\ k' = [k EXCEPT ![p] = s.k]
    /\ v' = [v EXCEPT ![p] = s.v]
    /\ pc' = [pc EXCEPT ![p] = s.pc]
    /\ ret' = [ret EXCEPT ![p] = s.ret]
    /\ pairs' = [pairs EXCEPT ![p] = s.pairs]
    /\ raised' = [raised EXCEPT ![p] = s.raised]
    /\ UNCHANGED <<input, endErr, doc, cmd, stdout, query>>

\* NewParser(r) and the entry of Parse for each instance of `started`, on the
\* stream `streams` gives it; the other instances are never used.
InitParser(started, streams) ==
    /\ input = [p \in Procs |-> IF p \in started THEN streams[p].input ELSE <<>>]
    /\ endErr = [p \in Procs |-> IF p \in started THEN streams[p].endErr ELSE EOF]
    /\ doc = [p \in Procs |-> IF p \in started THEN streams[p].doc ELSE NoDoc]
    /\ R = [p \in Procs |-> 0]
    /\ lineNo = [p \in Procs |-> 0]
    /\ result = [p \in Procs |-> newAlternatives]
    /\ currentAlt = [p \in Procs |-> NilPtr]
    /\ k = [p \in Procs |-> <<>>]
    /\ v = [p \in Procs |-> <<>>]
    /\ pc = [p \in Procs |-> IF p \in started THEN "read" ELSE "idle"]
    /\ ret = [p \in Procs |-> [rec |-> NilPtr, err |-> NoErr]]
    /\ pairs = [p \in Procs |-> <<>>]
    /\ raised = [p \in Procs |-> 0]

\* The streams are readers of the caller, strings.NewReader(input) in
\* ParseString: there is no subprocess and no Query call.
InitOn(started, streams) ==
    /\ InitParser(started, streams)
    /\ cmd = [p \in Procs |-> NoCmd]
    /\ stdout = [p \in Procs |-> EmptyPipe]
    /\ query = [p \in Procs |-> NoQuery]

\* One Parse call, on any input of the model.
Init ==
    \/ \E i \in GrammarInputs : InitOn({1}, [p \in Procs |-> i])
    \/ \E i \in FreeInputs : InitOn({1}, [p \in Procs |-> i])
    \/ \E i \in PriorityInputs : InitOn({1}, [p \in Procs |-> i])
    \/ \E i \in ValueInputs : InitOn({1}, [p \in Procs |-> i])
    \/ \E i \in SlavesInputs : InitOn({1}, [p \in Procs |-> i])

\* readKeyValue returns a pair.
ReadPair(p) ==
    /\ pc[p] = "read"
    /\ Delivered(p)
    /\ readKeyValue(input[p], endErr[p], R[p], lineNo[p]).err = NoErr
    /\ Become(p, readStep(input[p], endErr[p], St(p)))

\* readKeyValue returns io.EOF: the loop ends and Parse returns the record.
ReadEOF(p) ==
    /\ pc[p] = "read"
    /\ Delivered(p)
    /\ readKeyValue(input[p], endErr[p], R[p], lineNo[p]).err = EOF
    /\ Become(p, readStep(input[p], endErr[p], St(p)))

\* readKeyValue returns another error: Parse returns it.
ReadFail(p) ==
    /\ pc[p] = "read"
    /\ Delivered(p)
    /\ readKeyValue(input[p], endErr[p], R[p], lineNo[p]).err \notin {NoErr, EOF}
    /\ Become(p, readStep(input[p], endErr[p], St(p)))

\* The cases of the switch while currentAlt == nil.
HeaderName(p) ==
    /\ pc[p] = "switch"
    /\ currentAlt[p] = NilPtr
    /\ k[p] = KeyName
    /\ Become(p, switchStep(St(p)))

HeaderLink(p) ==
    /\ pc[p] = "switch"
    /\ currentAlt[p] = NilPtr
    /\ k[p] = KeyLink
    /\ Become(p, switchStep(St(p)))

HeaderSlaves(p) ==
    /\ pc[p] = "switch"
    /\ currentAlt[p] = NilPtr
    /\ k[p] = KeySlaves
    /\ Become(p, switchStep(St(p)))

HeaderStatus(p) ==
    /\ pc[p] = "switch"
    /\ currentAlt[p] = NilPtr
    /\ k[p] = KeyStatus
    /\ Become(p, switchStep(St(p)))

HeaderBest(p) ==
    /\ pc[p] = "switch"
    /\ currentAlt[p] = NilPtr
    /\ k[p] = KeyBest
    /\ Become(p, switchStep(St(p)))

HeaderValue(p) ==
    /\ pc[p] = "switch"
    /\ currentAlt[p] = NilPtr
    /\ k[p] = KeyValue
    /\ Become(p, switchStep(St(p)))

HeaderAlternative(p) ==
    /\ pc[p] = "switch"
    /\ currentAlt[p] = NilPtr
    /\ k[p] = KeyAlternative
    /\ Become(p, switchStep(St(p)))

HeaderDefault(p) ==
    /\ pc[p] = "switch"
    /\ currentAlt[p] = NilPtr
    /\ k[p] \notin HeaderKeys
    /\ Become(p, switchStep(St(p)))

\* The cases of the switch while currentAlt != nil.
AlternativePriority(p) ==
    /\ pc[p] = "switch"
    /\ currentAlt[p] # NilPtr
    /\ k[p] = KeyPriority
    /\ Become(p, switchStep(St(p)))

AlternativeSlaves(p) ==
    /\ pc[p] = "switch"
    /\ currentAlt[p] # NilPtr
    /\ k[p] = KeySlaves
    /\ Become(p, switchStep(St(p)))

AlternativeAlternative(p) ==
    /\ pc[p] = "switch"
    /\ currentAlt[p] # NilPtr
    /\ k[p] = KeyAlternative
    /\ Become(p, switchStep(St(p)))

AlternativeDefault(p) ==
    /\ pc[p] = "switch"
    /\ currentAlt[p] # NilPtr
    /\ k[p] \notin AlternativeKeys
    /\ Become(p, switchStep(St(p)))

Next ==
    \E p \in Procs :
        \/ ReadPair(p)
        \/ ReadEOF(p)
        \/ ReadFail(p)
        \/ HeaderName(p)
        \/ HeaderLink(p)
        \/ HeaderSlaves(p)
        \/ HeaderStatus(p)
        \/ HeaderBest(p)
        \/ HeaderValue(p)
        \/ HeaderAlternative(p)
        \/ HeaderDefault(p)
        \/ AlternativePriority(p)
        \/ AlternativeSlaves(p)
        \/ AlternativeAlternative(p)
        \/ AlternativeDefault(p)

Spec == Init /\ [][Next]_vars

(***************************************************************************)
(* Query: the subprocess is started with its standard output on a pipe,    *)
(* Parse reads the pipe, then Wait waits for the subprocess to exit.  The  *)
(* context is never cancelled.                                             *)
(***************************************************************************)
QueryError(status, message) ==
    [kind |-> "QueryError", ExitStatus |-> status, Message |-> message]

\* cmd.Wait() once the subprocess has exited: nil after exit status 0, an
\* *exec.ExitError otherwise.  Query leaves cmd.Stderr nil, so the
\* subprocess writes its messages to the null device, and ExitError.Stderr
\* is filled by cmd.Output alone: it is empty here.
Wait(c) ==
    IF c.status = 0 THEN NoErr
    ELSE [kind |-> "ExitError", ExitCode |-> c.status, Stderr |-> <<>>]

\* The return of Query after cmd.Wait(): a QueryError for an ExitError,
\* else result and err as Parse returned them.
queryReturn(parsed, waitErr) ==
    IF waitErr # NoErr
    THEN [rec |-> NilPtr,
          err |-> QueryError(waitErr.ExitCode, waitErr.Stderr)]
    ELSE parsed

\* What update-alternatives writes on its standard output.
QueryTexts ==
    { <<>>,
      RenderLines(<<(<<"j", "u", "n", "k">>), KV(KeyName, <<"a">>),
                    KV(KeyLink, <<"b">>)>>, FALSE, TRUE),
      RenderLines(<<KV(<<"F", "o", "o">>, <<"x">>)>>, FALSE, TRUE),
      RenderLines(<<KV(KeyAlternative, <<"/", "a">>),
                    KV(<<"F", "o", "o">>, <<"x">>),
                    KV(KeyPriority, <<"7">>)>>, FALSE, FALSE),
      RenderLines(DocLines([Name |-> TokName, Link |-> TokLink,
                            slaves |-> SlaveEntries(0, 1),
                            Status |-> TokStatus, Best |-> TokBest,
                            Value |-> TokValue,
                            alts |-> <<AltBlock(1, 1), AltBlock(2, 0)>>],
                           1, FALSE), FALSE, TRUE) }

\* Its exit statuses and what it writes on its standard error.
QueryStatuses == {0, 2}

QueryMessages == {<<>>, <<"n", "o", SP, "a", "l", "t", LF>>}

\* cmd.StdoutPipe(), cmd.Start() and NewParser(stdout).Parse() entered.
InitQuery ==
    \E txt \in QueryTexts, st \in QueryStatuses, msg \in QueryMessages :
        /\ InitParser({1}, [p \in Procs |->
                                [input |-> txt, endErr |-> EOF, doc |-> NoDoc]])
        /\ cmd = [p \in Procs |->
                    IF p = 1
                    THEN [state |-> "running", status |-> st, stderr |-> msg]
                    ELSE NoCmd]
        /\ stdout = [p \in Procs |-> EmptyPipe]
        /\ query = [p \in Procs |->
                      IF p = 1 THEN [NoQuery EXCEPT !.pc = "call"] ELSE NoQuery]

\* The subprocess writes the next byte of its output; the write blocks while
\* the pipe is full.
CanWrite(p) ==
    /\ cmd[p].state = "running"
    /\ stdout[p].written < Len(input[p])
    /\ stdout[p].written - stdout[p].drained < PipeCap

CmdWrite(p) ==
    /\ CanWrite(p)
    /\ stdout' = [stdout EXCEPT ![p].written = @ + 1]
    /\ UNCHANGED <<input, endErr, doc, R, lineNo, result, currentAlt, k, v, pc,
                   ret, pairs, raised, cmd, query>>

\* The subprocess has written all of its output and exits, which closes its
\* end of the pipe.
CanExit(p) ==
    /\ cmd[p].state = "running"
    /\ stdout[p].written = Len(input[p])

CmdExit(p) ==
    /\ CanExit(p)
    /\ cmd' = [cmd EXCEPT ![p].state = "exited"]
    /\ UNCHANGED <<input, endErr, doc, R, lineNo, result, currentAlt, k, v, pc,
                   ret, pairs, raised, stdout, query>>

\* The bufio.Reader fills its buffer: a read of readKeyValue that lacks bytes
\* takes what the pipe holds.
CanFill(p) ==
    /\ pc[p] = "read"
    /\ cmd[p].state # "none"
    /\ ~Delivered(p)
    /\ stdout[p].written > stdout[p].drained

Fill(p) ==
    /\ CanFill(p)
    /\ stdout' = [stdout EXCEPT ![p].drained = stdout[p].written]
    /\ UNCHANGED <<input, endErr, doc, R, lineNo, result, currentAlt, k, v, pc,
                   ret, pairs, raised, cmd, query>>

\* Parse has returned; cmd.Wait() returns once the subprocess has exited, and
\* Query returns.
CanReturn(p) ==
    /\ query[p].pc = "call"
    /\ pc[p] = "done"
    /\ cmd[p].state = "exited"

QueryReturn(p) ==
    /\ CanReturn(p)
    /\ query' = [query EXCEPT ![p] = [pc |-> "returned",
                                      ret |-> queryReturn(ret[p], Wait(cmd[p]))]]
    /\ UNCHANGED <<input, endErr, doc, R, lineNo, result, currentAlt, k, v, pc,
                   ret, pairs, raised, cmd, stdout>>

QueryNext ==
    \E p \in Procs :
          \/ ReadPair(p)
          \/ ReadEOF(p)
          \/ ReadFail(p)
          \/ HeaderName(p)
          \/ HeaderLink(p)
          \/ HeaderSlaves(p)
          \/ HeaderStatus(p)
          \/ HeaderBest(p)
          \/ HeaderValue(p)
          \/ HeaderAlternative(p)
          \/ HeaderDefault(p)
          \/ AlternativePriority(p)
          \/ AlternativeSlaves(p)
          \/ AlternativeAlternative(p)
          \/ AlternativeDefault(p)
          \/ CmdWrite(p)
          \/ CmdExit(p)
          \/ Fill(p)
          \/ QueryReturn(p)

SpecQuery == InitQuery /\ [][QueryNext]_vars

(***************************************************************************)
(* Two Parser instances, each on a stream of its own, whose steps          *)
(* interleave in any order (the parallel subtests of                       *)
(* Test_ParseString_NoError, or one call after the other).                 *)
(***************************************************************************)
TwoDoc ==
    [Name |-> TokName, Link |-> TokLink, slaves |-> SlaveEntries(0, 1),
     Status |-> TokStatus, Best |-> TokBest, Value |-> TokValue,
     alts |-> <<AltBlock(1, 1), AltBlock(2, 0)>>]

TwoTexts ==
    { <<(<<>>), (<<>>), (<<"j", "u", "n", "k">>)>>,
      <<KV(<<"F", "o", "o">>, <<"x">>), (<<SP, "s">>)>>,
      <<KV(KeyAlternative, <<"/", "a">>), KV(KeyPriority, <<"x">>)>>,
      <<KV(KeyAlternative, <<"/", "a">>), (<<>>),
        KV(<<"F", "o", "o">>, <<"x">>)>>,
      <<KV(KeyName, <<"a">>), KeySlaves \o <<COLON>>, (<<SP, "s">>)>> }

TwoInputs ==
    {[input |-> RenderLines(DocLines(TwoDoc, 1, FALSE), crlf, ~crlf),
      endErr |-> EOF, doc |-> TwoDoc] : crlf \in BOOLEAN}
    \cup {[input |-> RenderLines(ls, FALSE, TRUE), endErr |-> EOF,
           doc |-> NoDoc] : ls \in TwoTexts}
    \cup {[input |-> RenderLines(<<KV(KeyName, <<"a">>), KV(KeyLink, <<"b">>)>>,
                                 FALSE, FALSE),
           endErr |-> ReadError, doc |-> NoDoc]}

InitTwo == \E a \in TwoInputs, b \in TwoInputs : InitOn({1, 2}, <<a, b>>)

SpecTwo == InitTwo /\ [][Next]_vars

(***************************************************************************)
(* Properties.                                                             *)
(***************************************************************************)
Returned(p) == pc[p] = "done"

Succeeded(p) == Returned(p) /\ ret[p].err = NoErr

LastPair(p) == pairs[p][Len(pairs[p])]

MapOf(entries) == {<<entries[j].name, entries[j].path>> : j \in 1..Len(entries)}

\* The record a report of the grammar stands for.
RecordOf(d) ==
    [Name |-> d.Name, Link |-> d.Link, Slaves |-> MapOf(d.slaves),
     Status |-> d.Status, Best |-> d.Best, Value |-> d.Value,
     Alternatives |-> [i \in 1..Len(d.alts) |->
                          [Path |-> d.alts[i].Path,
                           Priority |-> d.alts[i].Priority,
                           Slaves |-> MapOf(d.alts[i].slaves)]]]

\* C1: an input written from a report of the grammar (any line ending, with
\* or without the final newline, with or without blank lines between the
\* blocks) parses without error into the record whose fields are the texts
\* and numbers of the report; the Java report of the README gives Name
\* "java", the one header slave link and two entries of priority 2111 and
\* 1081.
C1_GrammarInputParses ==
    \A p \in Procs :
        (Returned(p) /\ doc[p] # NoDoc) =>
            /\ ret[p] = [rec |-> RecordOf(doc[p]), err |-> NoErr]
            /\ doc[p] = JavaDoc =>
                  /\ ret[p].rec.Name = JavaName
                  /\ ret[p].rec.Slaves = {<<JavaMan, JavaManPath>>}
                  /\ Len(ret[p].rec.Alternatives) = 2
                  /\ ret[p].rec.Alternatives[1].Priority = 2111
                  /\ ret[p].rec.Alternatives[2].Priority = 1081

C1_Witness ==
    \E p \in Procs :
        /\ Returned(p)
        /\ doc[p] = JavaDoc
        /\ CR \in {input[p][j] : j \in 1..Len(input[p])}
        /\ Len(ret[p].rec.Alternatives) = 2

\* The values of the "Alternative" pairs delivered, in order.
RECURSIVE AlternativeValues(_)
AlternativeValues(ps) ==
    IF ps = <<>> THEN <<>>
    ELSE IF Head(ps).k = KeyAlternative
    THEN <<Head(ps).v>> \o AlternativeValues(Tail(ps))
    ELSE AlternativeValues(Tail(ps))

\* C2: after a successful parse Alternatives holds one entry per
\* "Alternative" pair read, in the order read, the i-th entry's Path being
\* the i-th such pair's value; with no such pair it is the empty sequence.
C2_OneEntryPerAlternative ==
    \A p \in Procs :
        Succeeded(p) =>
            /\ ret[p].rec # NilPtr
            /\ [i \in 1..Len(ret[p].rec.Alternatives) |->
                   ret[p].rec.Alternatives[i].Path]
               = AlternativeValues(pairs[p])
            /\ AlternativeValues(pairs[p]) = <<>> =>
                   ret[p].rec.Alternatives = <<>>

C2_Witness ==
    \E p \in Procs :
        /\ Succeeded(p)
        /\ doc[p] = NoDoc
        /\ Len(ret[p].rec.Alternatives) = 2

Bytes(s) == {s[j] : j \in 1..Len(s)}

\* strings.ReplaceAll(s, "\n", "\r\n")
RECURSIVE ToCRLF(_)
ToCRLF(s) ==
    IF s = <<>> THEN <<>>
    ELSE (IF Head(s) = LF THEN <<CR, LF>> ELSE <<Head(s)>>) \o ToCRLF(Tail(s))

MapBytes(m) == UNION {Bytes(e[1]) \cup Bytes(e[2]) : e \in m}

RecordBytes(rec) ==
    Bytes(rec.Name) \cup Bytes(rec.Link) \cup Bytes(rec.Status)
    \cup Bytes(rec.Best) \cup Bytes(rec.Value) \cup MapBytes(rec.Slaves)
    \cup UNION {Bytes(rec.Alternatives[i].Path)
                \cup MapBytes(rec.Alternatives[i].Slaves) :
                    i \in 1..Len(rec.Alternatives)}

\* C3: an input with LF line endings and the same input with every "\n"
\* replaced by "\r\n" parse to the same returned record and error, and no
\* field of the record of the CRLF input holds a carriage return.
C3_CRLFParsesLikeLF ==
    \A p \in Procs :
        (Returned(p) /\ endErr[p] = EOF /\ CR \notin Bytes(input[p])) =>
            LET crlf == ParseString(ToCRLF(input[p]))
            IN  /\ crlf = ret[p]
                /\ crlf.err = NoErr => CR \notin RecordBytes(crlf.rec)

C3_Witness ==
    \E p \in Procs :
        /\ Succeeded(p)
        /\ CR \notin Bytes(input[p])
        /\ Len(SelectSeq(input[p], LAMBDA b : b = LF)) >= 3
        /\ ret[p].rec.Slaves # EmptyMap
        /\ ret[p].rec.Alternatives # <<>>

SameOutcome(a, b) ==
    \/ a.err = NoErr /\ b.err = NoErr /\ a.rec = b.rec
    \/ a.err # NoErr /\ b.err # NoErr

\* C4: an input whose last line is not newline-terminated parses to the same
\* outcome (the same record, or a failure both times) as that input with
\* "\n" appended.
C4_FinalNewlineOptional ==
    \A p \in Procs :
        (Returned(p) /\ endErr[p] = EOF /\ input[p] # <<>>
                     /\ input[p][Len(input[p])] # LF) =>
            SameOutcome(ret[p], ParseString(input[p] \o <<LF>>))

\* The lines of a text: what stands before each line feed, and what follows
\* the last one unless it is empty.
TextLines(s) ==
    LET parts == Split(s, LF)
    IN  IF parts[Len(parts)] = <<>> THEN SubSeq(parts, 1, Len(parts) - 1)
        ELSE parts

\* A line without the carriage return of a CRLF line ending.
Content(l) ==
    IF l # <<>> /\ l[Len(l)] = CR THEN SubSeq(l, 1, Len(l) - 1) ELSE l

\* The lines instance p has not read yet, the index of the first one that is
\* not blank (0 when all are), and the number of lines read.
Unread(p) == TextLines(SubSeq(input[p], R[p] + 1, Len(input[p])))

FirstNonBlank(ls) ==
    LET K == {j \in 1..Len(ls) : Content(ls[j]) # <<>>}
    IN  IF K = {} THEN 0 ELSE CHOOSE j \in K : \A i \in K : j <= i

LinesRead(p) == Len(SelectSeq(SubSeq(input[p], 1, R[p]), LAMBDA b : b = LF))

\* The line is whole: a line feed ends it, or the stream ends in EOF.
WholeLine(p, j) == j < Len(Unread(p)) \/ input[p][Len(input[p])] = LF
                   \/ endErr[p] = EOF

\* C5: when the reader seeks the next key line and the first line that is
\* not blank holds no colon, the read step ends the parse: Parse returns no
\* record and the ParseError "malformed line" with that line's number.
C5_NoColonIsMalformedLine ==
    [][\A p \in Procs :
          LET j == FirstNonBlank(Unread(p))
          IN  (/\ pc[p] = "read"
               /\ pc'[p] # "read"
               /\ j # 0
               /\ COLON \notin Bytes(Unread(p)[j])
               /\ WholeLine(p, j)) =>
                  /\ pc'[p] = "done"
                  /\ ret'[p] = [rec |-> NilPtr,
                                err |-> ParseError("malformed line", <<>>,
                                                   LinesRead(p) + j)]]_vars

C5_Witness ==
    \E p \in Procs :
        /\ Returned(p)
        /\ ret[p].err = ParseError("malformed line", <<>>, 3)
        /\ currentAlt[p] # NilPtr

\* A decimal integer: an optional sign and one or more digits.
IsDecimal(s) ==
    /\ s # <<>>
    /\ LET body == IF s[1] \in {"-", "+"} THEN Tail(s) ELSE s
       IN  body # <<>> /\ \A j \in 1..Len(body) : IsDigit(body[j])

RECURSIVE Pow10(_)
Pow10(n) == IF n = 0 THEN 1 ELSE 10 * Pow10(n - 1)

RECURSIVE SumTo(_, _)
SumTo(f, n) == IF n = 0 THEN 0 ELSE f[n] + SumTo(f, n - 1)

DecimalValue(s) ==
    LET body == IF s[1] \in {"-", "+"} THEN Tail(s) ELSE s
        mag == SumTo([j \in 1..Len(body) |->
                         DigitVal(body[j]) * Pow10(Len(body) - j)], Len(body))
    IN  IF s[1] = "-" THEN 0 - mag ELSE mag

PriorityPair(p) ==
    /\ pairs[p] # <<>>
    /\ LastPair(p).k = KeyPriority
    /\ LastPair(p).mode = "InAlternative"

\* C6: once the switch has run on a "Priority" pair of an alternative block,
\* the parse goes on only if the value is a decimal integer, and then the
\* current entry's Priority is that integer; for any other value Parse has
\* returned no record and the ParseError "invalid priority value", which it
\* never returns for a decimal integer.
C6_PriorityIsParsedOrInvalid ==
    \A p \in Procs :
        PriorityPair(p) =>
            /\ pc[p] = "read" =>
                  /\ IsDecimal(LastPair(p).v)
                  /\ currentAlt[p].Priority = DecimalValue(LastPair(p).v)
            /\ (Returned(p) /\ ~IsDecimal(LastPair(p).v)) =>
                  /\ ret[p].rec = NilPtr
                  /\ ret[p].err.kind = "ParseError"
                  /\ ret[p].err.Message = "invalid priority value"
            /\ (Returned(p) /\ IsDecimal(LastPair(p).v)
                            /\ ret[p].err.kind = "ParseError") =>
                  ret[p].err.Message # "invalid priority value"

C6_Witness ==
    \E p \in Procs :
        /\ PriorityPair(p)
        /\ pc[p] = "read"
        /\ LastPair(p).v = <<"-", "3">>
        /\ currentAlt[p].Priority = 0 - 3

\* The keys each state accepts.
ValidKeys(mode) ==
    IF mode = "Header"
    THEN {KeyName, KeyLink, KeySlaves, KeyStatus, KeyBest, KeyValue,
          KeyAlternative}
    ELSE {KeyPriority, KeySlaves, KeyAlternative}

\* C7: once the switch has run on a pair whose key the state it met does
\* not accept, Parse has returned no record and the ParseError
\* "unexpected key" naming that key; every pair before the last one had a
\* key its state accepts.
C7_KeyOutsideItsStateFails ==
    \A p \in Procs :
        /\ \A i \in 1..(Len(pairs[p]) - 1) :
              pairs[p][i].k \in ValidKeys(pairs[p][i].mode)
        /\ (pairs[p] # <<>> /\ pc[p] \in {"read", "done"}
              /\ LastPair(p).k \notin ValidKeys(LastPair(p).mode)) =>
                 /\ Returned(p)
                 /\ ret[p].rec = NilPtr
                 /\ ret[p].err.kind = "ParseError"
                 /\ ret[p].err.Message = "unexpected key"
                 /\ ret[p].err.Key = LastPair(p).k

C7_Witness ==
    \E p \in Procs :
        /\ Returned(p)
        /\ Len(pairs[p]) = 2
        /\ LastPair(p).mode = "InAlternative"
        /\ LastPair(p).k = KeyName
        /\ ret[p].err.kind = "ParseError"
        /\ ret[p].err.Key = KeyName

\* C8: Parse returns either a record and no error, or no record and an
\* error; an error is raised at most once, and once one is raised Parse has
\* returned with it, without a record.
C8_RecordOrError ==
    \A p \in Procs :
        /\ Returned(p) =>
              \/ ret[p].rec # NilPtr /\ ret[p].err = NoErr /\ raised[p] = 0
              \/ ret[p].rec = NilPtr /\ ret[p].err # NoErr /\ raised[p] = 1
        /\ ~Returned(p) => raised[p] = 0

C8_Witness ==
    \E p \in Procs :
        /\ Returned(p)
        /\ ret[p].rec = NilPtr
        /\ raised[p] = 1
        /\ result[p].Name # <<>>
        /\ R[p] < Len(input[p])

\* C9: a "Slaves" pair with an empty value is no error: the parse does not
\* end in the ParseError "malformed slaves line" on it.
C9_EmptySlavesIsNoError ==
    \A p \in Procs :
        (Returned(p) /\ pairs[p] # <<>> /\ LastPair(p).k = KeySlaves
                     /\ LastPair(p).v = <<>>) =>
            ~(ret[p].err.kind = "ParseError"
              /\ ret[p].err.Message = "malformed slaves line")

\* The first entry of a slave list that holds no space (0 when all do).
FirstBadEntry(value) ==
    LET es == Split(value, LF)
        K == {j \in 1..Len(es) : SP \notin Bytes(es[j])}
    IN  IF K = {} THEN 0 ELSE CHOOSE j \in K : \A i \in K : j <= i

\* The line of the entries of the pair's value: the i-th entry stands on the
\* i-th line of the pair when the key line holds an entry, and on the i-th
\* continuation line when it holds none and every continuation line gave an
\* entry.
EntryOnKeyLine(pr) == Len(Split(pr.v, LF)) = pr.endLine - pr.keyLine + 1
EntryPerContinuation(pr) == Len(Split(pr.v, LF)) = pr.endLine - pr.keyLine

\* C10: a ParseError carries the number of the line at fault: the line
\* without a colon, the line of the unexpected key, the "Priority:" line,
\* the line of the first slave entry without a space.
C10_ErrorLineIsTheLineAtFault ==
    \A p \in Procs :
        (Returned(p) /\ ret[p].err.kind = "ParseError") =>
            LET e == ret[p].err
            IN  /\ e.Message = "malformed line" =>
                      e.Line = Len(TextLines(SubSeq(input[p], 1, R[p])))
                /\ e.Message \in {"unexpected key", "invalid priority value"}
                      => e.Line = LastPair(p).keyLine
                /\ (e.Message = "malformed slaves line"
                      /\ EntryOnKeyLine(LastPair(p))) =>
                      e.Line = LastPair(p).keyLine
                               + FirstBadEntry(LastPair(p).v) - 1
                /\ (e.Message = "malformed slaves line"
                      /\ EntryPerContinuation(LastPair(p))) =>
                      e.Line = LastPair(p).keyLine
                               + FirstBadEntry(LastPair(p).v)

\* The text the subprocess wrote on its standard error.
CapturedStderr(p) == cmd[p].stderr

\* C11: Query returns after the parse has run, and the exit status decides
\* what it returns: after a non-zero status no record and a QueryError with
\* that status and the text the subprocess wrote on its standard error,
\* whatever Parse returned; after status 0 what Parse returned.
C11_ExitStatusDecidesQuery ==
    \A p \in Procs :
        query[p].pc = "returned" =>
            /\ pc[p] = "done"
            /\ query[p].ret =
                 IF cmd[p].status # 0
                 THEN [rec |-> NilPtr,
                       err |-> QueryError(cmd[p].status, CapturedStderr(p))]
                 ELSE ret[p]

\* C12: two Parse calls on the same input, one after the other or
\* interleaved, return the same: value-equal records, or the same error
\* with the same line number.
C12_SameInputSameOutcome ==
    \A p \in Procs : \A q \in Procs :
        (/\ Returned(p) /\ Returned(q)
         /\ input[p] = input[q] /\ endErr[p] = endErr[q]) =>
            ret[p] = ret[q]

C12_Witness ==
    /\ Returned(1) /\ Returned(2)
    /\ input[1] = input[2]
    /\ ret[1].err.kind = "ParseError"
    /\ ret[1].err.Line = 3
    /\ ret[2].err.Line = 3

\* C13: under every interleaving of the steps of two instances, each
\* returns the record or the error, line number included, that Parse
\* returns on its stream when it runs alone.
C13_InstancesDoNotInterfere ==
    \A p \in Procs :
        Returned(p) => ret[p] = Parse(input[p], endErr[p], ParseStart).ret

C13_Witness ==
    /\ Returned(1) /\ Returned(2)
    /\ input[1] # input[2]
    /\ ret[1].err.kind = "ParseError"
    /\ ret[1].err.Line = 3
    /\ ret[2].rec # NilPtr
    /\ Len(ret[2].rec.Alternatives) = 2

\* The key line of a pair as the input holds it, without its line ending,
\* and what follows its first colon.
KeyLineOf(p, pr) == Content(TextLines(input[p])[pr.keyLine])

FirstIndexOf(l, c) ==
    LET K == {j \in 1..Len(l) : l[j] = c}
    IN  IF K = {} THEN 0 ELSE CHOOSE j \in K : \A i \in K : j <= i

AfterColon(l) == SubSeq(l, FirstIndexOf(l, COLON) + 1, Len(l))

BeforeColon(l) == SubSeq(l, 1, FirstIndexOf(l, COLON) - 1)

\* s without its first byte when that is a space.
DropOneSpace(s) == IF s # <<>> /\ s[1] = SP THEN Tail(s) ELSE s

\* s without all the spaces it begins with.
DropSpaces(s) ==
    LET K == {j \in 1..Len(s) : s[j] # SP}
    IN  IF K = {} THEN <<>>
        ELSE SubSeq(s, CHOOSE j \in K : \A i \in K : j <= i, Len(s))

\* The part of a pair's value that comes from the key line: the value of a
\* pair without continuation lines, the first line of a value otherwise.
FirstEntry(val) == Split(val, LF)[1]

FromKeyLine(pr, t) == (t # <<>> \/ pr.endLine = pr.keyLine)

\* readKeyValue has just delivered a pair to instance p. Every pair of the
\* history is the last one in the state its delivery leads to, so a
\* statement about the pair just delivered covers every delivered pair.
JustDelivered(p) == pc[p] = "switch" /\ pairs[p] # <<>>

\* C14 as claimed: the value of a key line is the text after the first
\* colon without one leading space; further leading spaces are kept.
C14_OneLeadingSpaceRemoved ==
    \A p \in Procs : JustDelivered(p) =>
        LET pr == LastPair(p)
            t == DropOneSpace(AfterColon(KeyLineOf(p, pr)))
        IN  FromKeyLine(pr, t) => FirstEntry(pr.v) = t

\* C14 as amended: the value of a key line is the text after the first
\* colon without all of its leading spaces and without the line ending's
\* carriage return.
C14_LeadingSpacesRemoved ==
    \A p \in Procs : JustDelivered(p) =>
        LET pr == LastPair(p)
            t == DropSpaces(AfterColon(KeyLineOf(p, pr)))
        IN  /\ FromKeyLine(pr, t) => FirstEntry(pr.v) = t
            /\ pr.endLine = pr.keyLine => pr.v = t
            /\ CR \notin Bytes(pr.v)

C14_Witness ==
    \E p \in Procs :
        /\ pairs[p] # <<>>
        /\ LastPair(p).v = <<"a", SP, "b">>
        /\ AfterColon(KeyLineOf(p, LastPair(p))) = <<SP, SP, "a", SP, "b">>
        /\ CR \in Bytes(input[p])

\* The number of colons of a byte string.
Colons(s) == Cardinality({j \in 1..Len(s) : s[j] = COLON})

\* C15: a key line is cut at its first colon only: the key of a pair is
\* what stands before the first colon of its line and holds no colon, every
\* later colon of the line is in the value, and a line that holds a colon
\* is never the line of a "malformed line" error.
C15_SplitAtFirstColon ==
    \A p \in Procs :
        /\ JustDelivered(p) =>
              LET pr == LastPair(p)
                  line == KeyLineOf(p, pr)
              IN  /\ pr.k = BeforeColon(line)
                  /\ COLON \notin Bytes(pr.k)
                  /\ FromKeyLine(pr, DropSpaces(AfterColon(line))) =>
                        Colons(FirstEntry(pr.v)) = Colons(line) - 1
        /\ (Returned(p) /\ ret[p].err.kind = "ParseError"
                        /\ ret[p].err.Message = "malformed line") =>
              COLON \notin Bytes(TextLines(input[p])[ret[p].err.Line])

C15_Witness ==
    \E p \in Procs :
        /\ Succeeded(p)
        /\ ret[p].rec.Link = <<"a", ":", "b", ":", "c">>
        /\ LastPair(p).k = KeyLink

\* The name and the path of a slave entry: what stands before and after its
\* first space.
EntryName(e) == SubSeq(e, 1, FirstIndexOf(e, SP) - 1)

EntryPath(e) == SubSeq(e, FirstIndexOf(e, SP) + 1, Len(e))

\* The mapping a list of entries stands for: for each name the path of the
\* last entry that names it.
LastWins(es) ==
    {<<EntryName(es[j]), EntryPath(es[j])>> :
        j \in {j \in 1..Len(es) :
                 \A h \in (j + 1)..Len(es) : EntryName(es[h]) # EntryName(es[j])}}

\* The mapping the last "Slaves" pair was stored into.
StoredSlaves(p) ==
    IF LastPair(p).mode = "Header" THEN result[p].Slaves
    ELSE currentAlt[p].Slaves

SlavesPair(p) == pairs[p] # <<>> /\ LastPair(p).k = KeySlaves

\* C16: once the switch has run on a "Slaves" pair, whose value is a list of
\* entries separated by newlines: when every entry holds a space the pair
\* raises no error, and the mapping stored has one key per distinct name,
\* each with the path (everything after the entry's first space) of the
\* last entry that names it; when an entry holds no space Parse has
\* returned no record and the ParseError "malformed slaves line".
C16_SlavesSplitAtFirstSpace ==
    \A p \in Procs :
        (SlavesPair(p) /\ pc[p] \in {"read", "done"}) =>
            LET es == Split(LastPair(p).v, LF)
                names == {EntryName(es[j]) : j \in 1..Len(es)}
            IN  IF \A j \in 1..Len(es) : SP \in Bytes(es[j])
                THEN /\ ~(/\ Returned(p)
                          /\ ret[p].err.kind = "ParseError"
                          /\ ret[p].err.Message = "malformed slaves line")
                     /\ StoredSlaves(p) = LastWins(es)
                     /\ {e[1] : e \in StoredSlaves(p)} = names
                     /\ Cardinality(StoredSlaves(p)) = Cardinality(names)
                ELSE /\ Returned(p)
                     /\ ret[p].rec = NilPtr
                     /\ ret[p].err.kind = "ParseError"
                     /\ ret[p].err.Message = "malformed slaves line"

C16_Witness ==
    \E p \in Procs :
        /\ SlavesPair(p)
        /\ pc[p] = "read"
        /\ Len(Split(LastPair(p).v, LF)) = 3
        /\ StoredSlaves(p) = {<<(<<"s">>), (<<"q", SP, "r">>)>>,
                              <<(<<"t">>), (<<"p">>)>>}

\* The number of lines after line i of ls, one after the other, that begin
\* with a space.
RECURSIVE SpaceRun(_, _)
SpaceRun(ls, i) ==
    IF i + 1 <= Len(ls) /\ ls[i + 1] # <<>> /\ ls[i + 1][1] = SP
    THEN 1 + SpaceRun(ls, i + 1)
    ELSE 0

\* C17: a pair takes exactly the lines that follow its key line and begin
\* with a space, up to the first line that does not (a blank line
\* included) or the end of the stream; when the key line holds no value and
\* N >= 1 such lines follow, the value splits on newline into N entries,
\* the i-th being the i-th of these lines without its leading spaces and
\* its line ending.  (Stated for the inputs whose last line is ended by a
\* line feed.)
C17_ContinuationLinesAreEntries ==
    \A p \in Procs : \A i \in 1..Len(pairs[p]) :
        LET pr == pairs[p][i]
            ls == TextLines(input[p])
            N == SpaceRun(ls, pr.keyLine)
        IN  input[p][Len(input[p])] = LF =>
            /\ pr.endLine = pr.keyLine + N
            /\ (N >= 1 /\ DropSpaces(AfterColon(KeyLineOf(p, pr))) = <<>>) =>
                  Split(pr.v, LF) =
                      [j \in 1..N |-> DropSpaces(Content(ls[pr.keyLine + j]))]

\* Runs of blank lines: empty lines, or lines that hold a carriage return.
BlankRuns == {<<LF>>, <<CR, LF>>, <<LF, LF>>, <<CR, LF, CR, LF>>}

\* The offset at which line n of s begins.
LineStart(s, n) ==
    IF n = 1 THEN 0
    ELSE CHOOSE j \in 1..Len(s) :
            s[j] = LF /\ Cardinality({h \in 1..j : s[h] = LF}) = n - 1

InsertAt(s, pos, b) == SubSeq(s, 1, pos) \o b \o SubSeq(s, pos + 1, Len(s))

\* s with the blank lines b after its last line.
InsertAtEnd(s, b) ==
    IF s = <<>> \/ s[Len(s)] = LF THEN s \o b ELSE s \o <<LF>> \o b

\* The input of p with the blank lines b at its start, at its end, or
\* before one of the key lines p has read.
WithBlankLines(p, b) ==
    {InsertAt(input[p], 0, b), InsertAtEnd(input[p], b)}
    \cup {InsertAt(input[p], LineStart(input[p], pairs[p][i].keyLine), b) :
             i \in 1..Len(pairs[p])}

OnlyBlankLines(s) == Bytes(s) \subseteq {CR, LF}

\* C18: blank lines put at the start of the input, at its end or before a
\* key line leave the outcome unchanged (the same record, or a failure both
\* times), and an input of blank lines only, or of nothing, parses without
\* error to the record of no fields.
C18_BlankLinesChangeNothing ==
    \A p \in Procs :
        (Returned(p) /\ endErr[p] = EOF) =>
            /\ \A b \in BlankRuns :
                  \A t \in WithBlankLines(p, b) :
                      SameOutcome(ret[p], ParseString(t))
            /\ OnlyBlankLines(input[p]) =>
                  ret[p] = [rec |-> newAlternatives, err |-> NoErr]

\* The top-level fields of a record apart from Alternatives.
HeaderFields(rec) ==
    <<rec.Name, rec.Link, rec.Status, rec.Best, rec.Value, rec.Slaves>>

\* C19: once the first "Alternative" pair has been processed the parser
\* stays in an alternative block; no later step changes the top-level
\* Name, Link, Status, Best, Value or Slaves, nor an entry already appended
\* to Alternatives; and the record returned is the one built.
C19_HeaderAndSavedEntriesFrozen ==
    [][\A p \in Procs :
          currentAlt[p] # NilPtr =>
              /\ currentAlt'[p] # NilPtr
              /\ HeaderFields(result'[p]) = HeaderFields(result[p])
              /\ Len(result'[p].Alternatives) >= Len(result[p].Alternatives)
              /\ SubSeq(result'[p].Alternatives, 1,
                        Len(result[p].Alternatives)) = result[p].Alternatives
              /\ (pc'[p] = "done" /\ pc[p] # "done"
                                  /\ ret'[p].err = NoErr) =>
                    ret'[p].rec = result'[p]]_vars

C19_Witness ==
    \E p \in Procs :
        /\ SlavesPair(p)
        /\ LastPair(p).mode = "InAlternative"
        /\ pc[p] = "read"
        /\ Len(result[p].Alternatives) = 1
        /\ result[p].Slaves # EmptyMap
        /\ result[p].Alternatives[1].Slaves # EmptyMap
        /\ currentAlt[p].Slaves # result[p].Alternatives[1].Slaves
        /\ currentAlt[p].Slaves # result[p].Slaves

\* A step of instance p's Query call is possible: readKeyValue can return,
\* the switch can run, the subprocess can write or exit, the reader can
\* take bytes from the pipe, or Wait and Query can return.
CanStep(p) ==
    \/ pc[p] = "read" /\ Delivered(p)
    \/ pc[p] = "switch"
    \/ CanWrite(p)
    \/ CanExit(p)
    \/ CanFill(p)
    \/ CanReturn(p)

\* C20: Query returns whenever the subprocess writes a finite output and
\* exits: as long as a Query call has not returned, a step of the parser, of
\* the subprocess or of Query itself is possible, also after the parser has
\* returned an error with output left unread.
C20_QueryNeverStuck ==
    \A p \in Procs : query[p].pc = "call" => CanStep(p)

==========================================================================
